---------------------------- MODULE Spec2Model ----------------------------
(***************************************************************************)
(* Model of numba/core/typing/asnumbatype.py: the AsNumbaTypeRegistry.     *)
(*                                                                         *)
(* The registry holds `lookup` (an exact-match table from python type to   *)
(* numba type) and `functions` (an ordered list of inference functions).   *)
(* register extends one or the other; try_infer and infer resolve a python *)
(* type.  Python values are modelled as nodes of one record shape so that  *)
(* any two of them can be compared.                                        *)
(*                                                                         *)
(* The numba type constructors (types.Optional, types.Array, ...), typeof  *)
(* and numpy_support.from_dtype live in other modules; they are taken as   *)
(* free constructors that never raise.  A typing alias is taken as the     *)
(* object the code reads: an origin and an argument tuple of any length.   *)
(***************************************************************************)
EXTENDS Naturals, Sequences, FiniteSets

VARIABLES
    lookup,     \* self.lookup
    functions,  \* self.functions
    regLog,     \* history: the (py_type, numba_type) pairs registered, in call order
    funLog,     \* history: the functions registered with the decorator form, in call order
    last        \* the call of try_infer / infer that has just returned to its caller

vars == <<lookup, functions, regLog, funLog, last>>

\* Bounds of the model.
MaxRegs == 2      \* exact-pair register calls explored
MaxUser == 2      \* decorator-form register calls explored
MaxArgs == 3      \* longest Union / Tuple argument list explored

---------------------------------------------------------------------------
\* Python values.  k is the kind of value, n a name, i an integer payload,
\* a the sequence of child values.
Node(k, n, i, a) == [k |-> k, n |-> n, i |-> i, a |-> a]

\* A class object such as int, str, type(None), np.ndarray, np.float64.
Cls(n) == Node("class", n, 0, <<>>)
\* A plain python int and a plain python str.
IntVal(v) == Node("int", "", v, <<>>)
StrVal(s) == Node("str", s, 0, <<>>)
\* typing generic alias: origin tag and __args__.
Generic(origin, args) == Node("generic", origin, 0, args)
\* Annotated[inner, *metadata]: __args__[0] followed by __metadata__.
Annotated(inner, metadata) == Node("annotated", "", 0, <<inner>> \o metadata)
\* An instance of numba types.Type.
Ty(n, i, a) == Node("type", n, i, a)
\* Python None, the "absent" result.
None == Node("None", "", 0, <<>>)
\* The outcome "the call raised".
TypingError == Node("raise", "TypingError", 0, <<>>)
ValueError == Node("raise", "ValueError", 0, <<>>)

Raised(x) == x.k = "raise"
\* isinstance(x, types.Type)
IsType(x) == x.k = "type"

\* Scalar numba types.
Scalar(n) == Ty(n, 0, <<>>)
int64 == Scalar("int64")
float64 == Scalar("float64")
complex128 == Scalar("complex128")
unicode_type == Scalar("unicode_type")
boolean == Scalar("boolean")
none == Scalar("none")

\* Type constructors.  Their arguments are evaluated left to right before
\* the constructor runs, so an argument that raised propagates.
FirstRaised(s) == s[CHOOSE j \in 1..Len(s) :
                      Raised(s[j]) /\ \A m \in 1..(j-1) : ~Raised(s[m])]
AnyRaised(s) == \E j \in 1..Len(s) : Raised(s[j])

Optional(t) == IF Raised(t) THEN t ELSE Ty("Optional", 0, <<t>>)
ListType(t) == IF Raised(t) THEN t ELSE Ty("ListType", 0, <<t>>)
SetT(t) == IF Raised(t) THEN t ELSE Ty("Set", 0, <<t>>)
DictType(kt, vt) ==
    IF Raised(kt) THEN kt ELSE IF Raised(vt) THEN vt
    ELSE Ty("DictType", 0, <<kt, vt>>)
TupleFromTypes(tys) ==
    IF AnyRaised(tys) THEN FirstRaised(tys) ELSE Ty("Tuple", 0, tys)
Array(dtype, ndim, layout) ==
    IF Raised(dtype) THEN dtype ELSE Ty("Array", ndim.i, <<dtype, layout>>)

\* Class objects used below.
int_cls == Cls("int")
float_cls == Cls("float")
complex_cls == Cls("complex")
str_cls == Cls("str")
bool_cls == Cls("bool")
NoneType == Cls("NoneType")
ndarray == Cls("np.ndarray")
np_float64 == Cls("np.float64")
np_int32 == Cls("np.int32")
Foo == Cls("Foo")

\* issubclass(c, np.generic) and numpy_support.from_dtype(c)
NumpyGeneric == {np_float64, np_int32}
from_dtype(c) == IF c = np_float64 THEN float64 ELSE Scalar("int32")

---------------------------------------------------------------------------
\* __init__: the seeded lookup table and the built-in function list.
InitLookup ==
    [c \in {int_cls, float_cls, complex_cls, str_cls, bool_cls, NoneType} |->
        CASE c = int_cls -> int64
          [] c = float_cls -> float64
          [] c = complex_cls -> complex128
          [] c = str_cls -> unicode_type
          [] c = bool_cls -> boolean
          [] OTHER -> none]

InitFunctions == <<"_builtin_infer", "_numba_type_infer", "_numpy_type_infer">>

\* User functions that may be registered with the decorator form.  Each maps
\* a python type to a value or None.
user_foo_float(py_type) ==
    IF py_type = Foo THEN float64
    ELSE IF py_type.k = "generic" /\ py_type.n = "frozenset" THEN SetT(int64)
    ELSE None
\* For a frozenset alias this one returns a plain python int, not a numba
\* type.
user_foo_int(py_type) ==
    IF py_type = Foo THEN int64
    ELSE IF py_type = int_cls THEN float64
    ELSE IF py_type.k = "generic" /\ py_type.n = "frozenset" THEN IntVal(7)
    ELSE None

UserFunctions == {"user_foo_float", "user_foo_int"}

\* _numba_type_infer
_numba_type_infer(py_type) == IF IsType(py_type) THEN py_type ELSE None

\* _numpy_type_infer
_numpy_type_infer(py_type) ==
    IF py_type.k = "class" /\ py_type \in NumpyGeneric
    THEN from_dtype(py_type) ELSE None

\* x == y as the dict of self.lookup decides it (__eq__, with equal hashes):
\* two Union aliases are equal when their members are equal as sets, any
\* other two values when they have the same shape and equal parts in the
\* same order.
RECURSIVE KeyEq(_, _)
KeyEq(x, y) ==
    /\ x.k = y.k /\ x.n = y.n /\ x.i = y.i
    /\ IF x.k = "generic" /\ x.n = "Union"
       THEN /\ \A p \in 1..Len(x.a) : \E q \in 1..Len(y.a) : KeyEq(x.a[p], y.a[q])
            /\ \A q \in 1..Len(y.a) : \E p \in 1..Len(x.a) : KeyEq(x.a[p], y.a[q])
       ELSE /\ Len(x.a) = Len(y.a)
            /\ \A p \in 1..Len(x.a) : KeyEq(x.a[p], y.a[p])

\* py_type in self.lookup
HasKey(L, py_type) == \E key \in DOMAIN L : KeyEq(key, py_type)

\* the value of self.lookup.get(py_type, None)
LookupGet(L, py_type) ==
    IF HasKey(L, py_type)
    THEN L[CHOOSE key \in DOMAIN L : KeyEq(key, py_type)]
    ELSE None

\* self.lookup[py_type] = numba_type: an equal key already in the dict is
\* kept and its value replaced, otherwise py_type becomes a new key.
LookupSet(L, py_type, numba_type) ==
    IF HasKey(L, py_type)
    THEN [L EXCEPT ![CHOOSE key \in DOMAIN L : KeyEq(key, py_type)] = numba_type]
    ELSE [key \in DOMAIN L \cup {py_type} |->
            IF key = py_type THEN numba_type ELSE L[key]]

RECURSIVE _builtin_infer(_, _, _)
RECURSIVE CallFunction(_, _, _, _)
RECURSIVE InferLoop(_, _, _, _, _)
RECURSIVE try_infer(_, _, _)
RECURSIVE infer(_, _, _)
RECURSIVE InferAll(_, _, _)
RECURSIVE InferLoop_NoBreak(_, _, _, _, _)

\* tuple(map(self.infer, args)): stops at the first element that raises.
InferAll(L, F, args) ==
    IF args = <<>> THEN <<>>
    ELSE LET t == infer(L, F, Head(args))
         IN IF Raised(t) THEN <<t>> ELSE <<t>> \o InferAll(L, F, Tail(args))

\* Variant of AnnotatedInfer: the layout given as third annotation is dropped.
AnnotatedInfer_LayoutDropped(L, F, py_type) ==
    LET inner_py_type == py_type.a[1]
        annotations == Tail(py_type.a)
    IN  IF Len(annotations) = 1
        THEN infer(L, F, annotations[1])
        ELSE IF /\ Len(annotations) \in {2, 3}
                /\ inner_py_type = ndarray
                /\ annotations[2].k = "int"
        THEN Array(infer(L, F, annotations[1]), annotations[2], StrVal("A"))
        ELSE TypingError

\* Variant of AnnotatedInfer: Annotated[py_type, nb_type] resolves py_type.
AnnotatedInfer_ResolvesInner(L, F, py_type) ==
    LET inner_py_type == py_type.a[1]
        annotations == Tail(py_type.a)
    IN  IF Len(annotations) = 1
        THEN infer(L, F, inner_py_type)
        ELSE IF /\ Len(annotations) \in {2, 3}
                /\ inner_py_type = ndarray
                /\ annotations[2].k = "int"
        THEN LET layout == IF Len(annotations) = 3 THEN annotations[3]
                           ELSE StrVal("A")
             IN Array(infer(L, F, annotations[1]), annotations[2], layout)
        ELSE TypingError

\* Variant of AnnotatedInfer: ndim is read from the first annotation and the
\* dtype from the wrapped type.
AnnotatedInfer_NdimFirst(L, F, py_type) ==
    LET inner_py_type == py_type.a[1]
        annotations == Tail(py_type.a)
    IN  IF Len(annotations) = 1
        THEN infer(L, F, annotations[1])
        ELSE IF /\ Len(annotations) \in {2, 3}
                /\ inner_py_type = ndarray
                /\ annotations[1].k = "int"
        THEN LET layout == IF Len(annotations) = 3 THEN annotations[3]
                           ELSE StrVal("A")
             IN Array(infer(L, F, inner_py_type), annotations[1], layout)
        ELSE TypingError

\* The Annotated branch of _builtin_infer.
AnnotatedInfer(L, F, py_type) ==
    LET inner_py_type == py_type.a[1]
        annotations == Tail(py_type.a)
    IN  IF Len(annotations) = 1
        THEN infer(L, F, annotations[1])
        ELSE IF /\ Len(annotations) \in {2, 3}
                /\ inner_py_type = ndarray
                /\ annotations[2].k = "int"
        THEN LET layout == IF Len(annotations) = 3 THEN annotations[3]
                           ELSE StrVal("A")
             IN Array(infer(L, F, annotations[1]), annotations[2], layout)
        ELSE TypingError

\* Variant of UnionInfer: only Union[T, None] is taken as an Optional.
UnionInfer_NoneSecondOnly(L, F, py_type) ==
    IF Len(py_type.a) # 2 THEN TypingError
    ELSE LET arg_1_py == py_type.a[1]
             arg_2_py == py_type.a[2]
         IN  IF arg_2_py = NoneType THEN Optional(infer(L, F, arg_1_py))
             ELSE TypingError

\* The Union branch of _builtin_infer.
UnionInfer(L, F, py_type) ==
    IF Len(py_type.a) # 2 THEN TypingError
    ELSE LET arg_1_py == py_type.a[1]
             arg_2_py == py_type.a[2]
         IN  IF arg_2_py = NoneType THEN Optional(infer(L, F, arg_1_py))
             ELSE IF arg_1_py = NoneType THEN Optional(infer(L, F, arg_2_py))
             ELSE TypingError

\* Variant of ContainerInfer: the tuple's element types come out reversed
\* and the dict's key and value types swapped.
ContainerInfer_Swapped(L, F, py_type) ==
    LET args == py_type.a
        rev == [j \in 1..Len(args) |-> args[Len(args) + 1 - j]]
    IN  CASE py_type.n = "list" ->
               IF Len(args) # 1 THEN ValueError
               ELSE ListType(infer(L, F, args[1]))
          [] py_type.n = "dict" ->
               IF Len(args) # 2 THEN ValueError
               ELSE DictType(infer(L, F, args[2]), infer(L, F, args[1]))
          [] py_type.n = "set" ->
               IF Len(args) # 1 THEN ValueError
               ELSE SetT(infer(L, F, args[1]))
          [] py_type.n = "tuple" -> TupleFromTypes(InferAll(L, F, rev))
          [] OTHER -> None

\* The container branches of _builtin_infer.
ContainerInfer(L, F, py_type) ==
    LET args == py_type.a
    IN  CASE py_type.n = "list" ->
               IF Len(args) # 1 THEN ValueError
               ELSE ListType(infer(L, F, args[1]))
          [] py_type.n = "dict" ->
               IF Len(args) # 2 THEN ValueError
               ELSE DictType(infer(L, F, args[1]), infer(L, F, args[2]))
          [] py_type.n = "set" ->
               IF Len(args) # 1 THEN ValueError
               ELSE SetT(infer(L, F, args[1]))
          [] py_type.n = "tuple" -> TupleFromTypes(InferAll(L, F, args))
          [] OTHER -> None

\* _builtin_infer
_builtin_infer(L, F, py_type) ==
    IF py_type.k \notin {"generic", "annotated"} THEN None
    ELSE IF py_type.k = "annotated" THEN AnnotatedInfer(L, F, py_type)
    ELSE IF py_type.n = "Union" THEN UnionInfer(L, F, py_type)
    ELSE ContainerInfer(L, F, py_type)

\* func(py_type) for an entry func of self.functions.
CallFunction(L, F, func, py_type) ==
    CASE func = "_builtin_infer" -> _builtin_infer(L, F, py_type)
      [] func = "_numba_type_infer" -> _numba_type_infer(py_type)
      [] func = "_numpy_type_infer" -> _numpy_type_infer(py_type)
      [] func = "user_foo_float" -> user_foo_float(py_type)
      [] OTHER -> user_foo_int(py_type)

\* Variant of InferLoop: the loop never breaks, so the last function that
\* returns a value decides.
InferLoop_NoBreak(L, F, py_type, j, st) ==
    IF j > Len(F) THEN st
    ELSE LET r == CallFunction(L, F, F[j], py_type)
             st2 == [result |-> IF r # None THEN r ELSE st.result,
                     calls |-> Append(st.calls, F[j])]
         IN IF Raised(r) THEN st2
            ELSE InferLoop_NoBreak(L, F, py_type, j + 1, st2)

\* The for loop of try_infer from position j on, with st the pair of the
\* current result and the functions called so far.
InferLoop(L, F, py_type, j, st) ==
    IF j > Len(F) THEN st
    ELSE IF st.result # None THEN st
    ELSE LET r == CallFunction(L, F, F[j], py_type)
             st2 == [result |-> r, calls |-> Append(st.calls, F[j])]
         IN IF Raised(r) THEN st2 ELSE InferLoop(L, F, py_type, j + 1, st2)

\* Variant of TryInferScan: the functions are tried first and the lookup
\* table only when none of them returns a value.
TryInferScan_FunctionsFirst(L, F, py_type) ==
    LET st == InferLoop(L, F, py_type, 1, [result |-> None, calls |-> <<>>])
    IN  IF st.result = None
        THEN [result |-> LookupGet(L, py_type), calls |-> st.calls]
        ELSE st

\* result and called functions of the scan part of try_infer
TryInferScan(L, F, py_type) ==
    InferLoop(L, F, py_type, 1,
              [result |-> LookupGet(L, py_type), calls |-> <<>>])

\* Variant of try_infer: the isinstance check of the result is missing.
try_infer_NoCheck(L, F, py_type) == TryInferScan(L, F, py_type).result

\* try_infer
try_infer(L, F, py_type) ==
    LET result == TryInferScan(L, F, py_type).result
    IN  IF Raised(result) THEN result
        ELSE IF result # None /\ ~IsType(result) THEN TypingError
        ELSE result

\* Variant of infer: None is handed on instead of raising.
infer_ReturnsNone(L, F, py_type) == try_infer(L, F, py_type)

\* infer
infer(L, F, py_type) ==
    LET result == try_infer(L, F, py_type)
    IN IF result = None THEN TypingError ELSE result

---------------------------------------------------------------------------
\* Inputs.
SeqsUpTo(S, n) == UNION {[1..m -> S] : m \in 0..n}

Atoms == {int_cls, str_cls, NoneType, Foo, ndarray, np_float64, float64,
          IntVal(2), StrVal("C")}

ListOfInt == Generic("list", <<int_cls>>)
DictStrInt == Generic("dict", <<str_cls, int_cls>>)

Containers ==
    { ListOfInt, Generic("list", <<Foo>>), DictStrInt,
      Generic("dict", <<Foo, np_float64>>),
      Generic("set", <<str_cls>>), Generic("set", <<Foo>>),
      Generic("frozenset", <<int_cls>>),
      Generic("list", <<DictStrInt>>),
      Generic("dict", <<str_cls, ListOfInt>>),
      Generic("set", <<Generic("tuple", <<int_cls, Foo>>)>>),
      Generic("list", <<Generic("list", <<DictStrInt>>)>>) }

\* Tuple aliases of every length up to MaxArgs, the members alternating so
\* that their order shows in the result.
Alternating(n) == [j \in 1..n |-> IF j % 2 = 1 THEN int_cls ELSE Foo]
Tuples == {Generic("tuple", Alternating(n)) : n \in 0..MaxArgs}
            \cup {Generic("tuple", <<Foo, int_cls>>),
                  Generic("tuple", <<ListOfInt, float64, str_cls>>)}

OptionalFoo == Generic("Union", <<Foo, NoneType>>)
FooOptional == Generic("Union", <<NoneType, Foo>>)

\* Union aliases: every member list over NoneType and Foo of length up to
\* two, and for each longer length up to MaxArgs the lists with NoneType at
\* one position or at none.
NoneAt(n, p) == [j \in 1..n |-> IF j = p THEN NoneType ELSE Foo]
Unions == {Generic("Union", s) : s \in SeqsUpTo({NoneType, Foo}, 2)}
            \cup {Generic("Union", NoneAt(n, p)) : n \in 3..MaxArgs, p \in 0..MaxArgs}
            \cup {Generic("Union", <<int_cls, NoneType>>),
                  Generic("Union", <<int_cls, Foo>>),
                  Generic("Union", <<NoneType, ListOfInt>>),
                  Generic("list", <<OptionalFoo>>),
                  Generic("list", <<FooOptional>>)}

MetaPairs == {<<x, y>> : x \in {np_float64, IntVal(2)},
                         y \in {np_float64, IntVal(2)}}
Metadata ==
    {<<m>> : m \in {np_float64, IntVal(2), Foo}}
      \cup MetaPairs
      \cup {Append(p, StrVal("C")) : p \in MetaPairs}
      \cup {<<>>, <<np_float64, IntVal(2), StrVal("C"), StrVal("C")>>}

\* Annotated aliases around np.ndarray, and around int for the metadata that
\* would be valid around np.ndarray.
Annotateds ==
    {Annotated(ndarray, md) : md \in Metadata}
      \cup {Annotated(int_cls, md) :
              md \in {<<np_float64>>, <<IntVal(2)>>, <<Foo>>,
                      <<np_float64, IntVal(2)>>,
                      <<np_float64, IntVal(2), StrVal("C")>>}}

\* The python types given to infer.
PyTypes == Atoms \cup Containers \cup Tuples \cup Unions \cup Annotateds

\* The python types given to try_infer.
TryTypes ==
    Atoms \cup { ListOfInt, Generic("frozenset", <<int_cls>>),
                 Generic("list", <<DictStrInt>>), OptionalFoo, FooOptional,
                 Generic("Union", <<int_cls, Foo>>),
                 Annotated(ndarray, <<np_float64, IntVal(2)>>),
                 Annotated(int_cls, <<Foo>>) }

\* (py_type, numba_type) pairs offered to register.
RegPairs == { <<Foo, float64>>, <<Foo, int64>>, <<int_cls, float64>>,
              <<ListOfInt, float64>>,
              <<OptionalFoo, float64>>, <<FooOptional, int64>> }

---------------------------------------------------------------------------
NoCall == [op |-> "none", arg |-> None, result |-> None, calls |-> <<>>]

Init ==
    /\ lookup = InitLookup
    /\ functions = InitFunctions
    /\ regLog = <<>>
    /\ funLog = <<>>
    /\ last = NoCall

\* Variant of register: a decorated function is put in front of the list.
register_Prepend(func_or_py_type, numba_type) ==
    /\ last = NoCall
    /\ IF numba_type # None
       THEN /\ IsType(numba_type)
            /\ Len(regLog) < MaxRegs
            /\ lookup' = LookupSet(lookup, func_or_py_type, numba_type)
            /\ regLog' = Append(regLog, <<func_or_py_type, numba_type>>)
            /\ UNCHANGED <<functions, funLog>>
       ELSE /\ func_or_py_type \in UserFunctions
            /\ Len(funLog) < MaxUser
            /\ functions' = <<func_or_py_type>> \o functions
            /\ funLog' = Append(funLog, func_or_py_type)
            /\ UNCHANGED <<lookup, regLog>>
    /\ UNCHANGED last

\* register(func_or_py_type, numba_type)
register(func_or_py_type, numba_type) ==
    /\ last = NoCall
    /\ IF numba_type # None
       THEN /\ IsType(numba_type)
            /\ Len(regLog) < MaxRegs
            /\ lookup' = LookupSet(lookup, func_or_py_type, numba_type)
            /\ regLog' = Append(regLog, <<func_or_py_type, numba_type>>)
            /\ UNCHANGED <<functions, funLog>>
       ELSE /\ func_or_py_type \in UserFunctions
            /\ Len(funLog) < MaxUser
            /\ functions' = Append(functions, func_or_py_type)
            /\ funLog' = Append(funLog, func_or_py_type)
            /\ UNCHANGED <<lookup, regLog>>
    /\ UNCHANGED last

RegisterPair == \E p \in RegPairs : register(p[1], p[2])
RegisterFunction == \E f \in UserFunctions : register(f, None)

\* A call of try_infer(py_type) runs to completion and returns to its caller.
TryInfer ==
    /\ last = NoCall
    /\ \E py_type \in TryTypes :
        last' = [op |-> "try_infer", arg |-> py_type,
                 result |-> try_infer(lookup, functions, py_type),
                 calls |-> TryInferScan(lookup, functions, py_type).calls]
    /\ UNCHANGED <<lookup, functions, regLog, funLog>>

\* A call of infer(py_type) runs to completion and returns to its caller.
Infer ==
    /\ last = NoCall
    /\ \E py_type \in PyTypes :
        last' = [op |-> "infer", arg |-> py_type,
                 result |-> infer(lookup, functions, py_type),
                 calls |-> TryInferScan(lookup, functions, py_type).calls]
    /\ UNCHANGED <<lookup, functions, regLog, funLog>>

\* The caller takes the returned value (or handles the exception) and goes
\* on; the registry keeps nothing of the call.
Return ==
    /\ last # NoCall
    /\ last' = NoCall
    /\ UNCHANGED <<lookup, functions, regLog, funLog>>

Next == RegisterPair \/ RegisterFunction \/ TryInfer \/ Infer \/ Return

Spec == Init /\ [][Next]_vars

---------------------------------------------------------------------------
\* Vocabulary of the properties.

\* py_type has no entry in the lookup table.
NoEntry(py_type) == ~HasKey(lookup, py_type)

\* The positions of regLog at which py_type (a key equal to it) was registered.
RegisteredAt(py_type) ==
    {j \in 1..Len(regLog) : KeyEq(regLog[j][1], py_type)}

\* py_type was seeded by __init__ or given to register with a numba type.
Registered(py_type) ==
    py_type \in DOMAIN InitLookup \/ RegisteredAt(py_type) # {}

\* The numba type of the most recent such registration of py_type.
MostRecent(py_type) ==
    IF RegisteredAt(py_type) # {}
    THEN LET j == CHOOSE j \in RegisteredAt(py_type) :
                    \A m \in RegisteredAt(py_type) : m <= j
         IN regLog[j][2]
    ELSE InitLookup[py_type]

\* What the j-th function of the list returns for py_type.
Returned(j, py_type) == CallFunction(lookup, functions, functions[j], py_type)

\* The j-th function is the first of the list to return a value for py_type.
IsFirstPresent(j, py_type) ==
    /\ Returned(j, py_type) # None
    /\ ~Raised(Returned(j, py_type))
    /\ \A m \in 1..(j-1) : Returned(m, py_type) = None

IsCall == last.op \in {"try_infer", "infer"}

\* C1: for a python type that was seeded or registered with a numba type
\* (under a key equal to it),
\* try_infer and infer return the numba type of its most recent registration
\* (the seeded one if there was none) and call none of the functions,
\* whatever functions are registered.
C1_ExactEntryWins ==
    (IsCall /\ Registered(last.arg)) =>
        /\ last.result = MostRecent(last.arg)
        /\ last.calls = <<>>

C1_Witness ==
    /\ last.op = "infer" /\ last.arg = OptionalFoo
    /\ regLog = << <<OptionalFoo, float64>>, <<FooOptional, int64>> >>
    /\ Cardinality(DOMAIN lookup) = Cardinality(DOMAIN InitLookup) + 1
    /\ funLog = <<"user_foo_float">>
    /\ UnionInfer(lookup, functions, OptionalFoo) = Ty("Optional", 0, <<float64>>)
    /\ last.result = int64

\* C2: for a python type without a lookup entry, try_infer calls the
\* functions in list order up to and including the first one that returns a
\* value, calls none after it, and returns that value (TypingError instead
\* when the value is no numba type); so of two user functions that both
\* match, the one registered first decides.
C2_FirstFunctionWins ==
    (last.op = "try_infer" /\ NoEntry(last.arg)) =>
        \A j \in 1..Len(functions) :
            IsFirstPresent(j, last.arg) =>
                /\ last.calls = SubSeq(functions, 1, j)
                /\ last.result = IF IsType(Returned(j, last.arg))
                                 THEN Returned(j, last.arg)
                                 ELSE TypingError

C2_Witness ==
    /\ last.op = "try_infer" /\ last.arg = Foo /\ NoEntry(Foo)
    /\ funLog = <<"user_foo_float", "user_foo_int">>
    /\ user_foo_int(Foo) = int64
    /\ last.result = float64
    /\ last.calls = SubSeq(functions, 1, 4)

\* C3: for a python type without a lookup entry, when the first function to
\* return a value returns one that is no numba type, try_infer and infer
\* raise TypingError: the value is not returned and no later function's
\* result replaces it.
C3_NonTypeRaises ==
    (IsCall /\ NoEntry(last.arg)) =>
        \A j \in 1..Len(functions) :
            (IsFirstPresent(j, last.arg) /\ ~IsType(Returned(j, last.arg)))
                => last.result = TypingError

C3_Witness ==
    /\ IsCall /\ last.arg = Generic("frozenset", <<int_cls>>)
    /\ NoEntry(last.arg)
    /\ funLog = <<"user_foo_int", "user_foo_float">>
    /\ user_foo_int(last.arg) = IntVal(7)
    /\ IsType(user_foo_float(last.arg))
    /\ last.result = TypingError

\* C4: for a python type without a lookup entry for which every function
\* returns None, try_infer returns None and infer raises TypingError; and
\* whenever try_infer gives a numba type, infer returns that same type.
C4_UnknownIsAbsent ==
    /\ (IsCall /\ NoEntry(last.arg)
          /\ \A j \in 1..Len(functions) : Returned(j, last.arg) = None)
        => last.result = IF last.op = "try_infer" THEN None ELSE TypingError
    /\ (last.op = "infer" /\ IsType(try_infer(lookup, functions, last.arg)))
        => last.result = try_infer(lookup, functions, last.arg)

C4_Witness ==
    /\ last.op = "infer" /\ last.arg = ndarray /\ NoEntry(ndarray)
    /\ funLog # <<>> /\ regLog # <<>>
    /\ \A j \in 1..Len(functions) : Returned(j, ndarray) = None
    /\ last.result = TypingError

\* C5: for a Union without a lookup entry of its own, infer returns
\* Optional(infer(other member)) when it has two members of which exactly
\* one is NoneType, in either position; raises TypingError when it has two
\* members neither of which is NoneType; and raises TypingError when it has
\* any other number of members.
C5_Union ==
    (last.op = "infer" /\ last.arg.k = "generic" /\ last.arg.n = "Union"
       /\ NoEntry(last.arg)) =>
        LET m == last.arg.a
        IN  IF Len(m) # 2 THEN last.result = TypingError
            ELSE IF m[1] # NoneType /\ m[2] # NoneType
                 THEN last.result = TypingError
            ELSE IF m[1] = NoneType /\ m[2] # NoneType
                 THEN last.result = Optional(infer(lookup, functions, m[2]))
            ELSE IF m[1] # NoneType /\ m[2] = NoneType
                 THEN last.result = Optional(infer(lookup, functions, m[1]))
            ELSE TRUE

C5_Witness ==
    /\ last.op = "infer" /\ last.arg = Generic("Union", <<NoneType, Foo>>)
    /\ last.result = Ty("Optional", 0, <<float64>>)

\* C6: for Annotated[np.ndarray, dtype, n] with n an int, resolved by the
\* functions (no lookup entry of its own), infer returns
\* Array(infer(dtype), n, "A"), and for Annotated[np.ndarray, dtype, n, L] the
\* same Array with layout L: dtype is the first annotation, ndim the second.
C6_ArrayShape ==
    (last.op = "infer" /\ last.arg.k = "annotated" /\ NoEntry(last.arg)
       /\ last.arg.a[1] = ndarray /\ Len(last.arg.a) \in {3, 4}
       /\ last.arg.a[3].k = "int") =>
        LET dtype == infer(lookup, functions, last.arg.a[2])
            layout == IF Len(last.arg.a) = 4 THEN last.arg.a[4] ELSE StrVal("A")
        IN  last.result = IF Raised(dtype) THEN dtype
                          ELSE Ty("Array", last.arg.a[3].i, <<dtype, layout>>)

C6_Witness ==
    /\ last.op = "infer"
    /\ last.arg = Annotated(ndarray, <<np_float64, IntVal(2), StrVal("C")>>)
    /\ last.result = Ty("Array", 2, <<float64, StrVal("C")>>)

\* C7: for Annotated[X, M] without a lookup entry of its own, infer has the
\* outcome of infer(M), the same numba type or TypingError, whatever X is.
C7_SingleAnnotation ==
    (last.op = "infer" /\ last.arg.k = "annotated" /\ Len(last.arg.a) = 2
       /\ NoEntry(last.arg)) =>
        /\ last.result = infer(lookup, functions, last.arg.a[2])
        /\ \A X \in {ndarray, int_cls, Foo} :
              NoEntry(Annotated(X, <<last.arg.a[2]>>)) =>
                  infer(lookup, functions, Annotated(X, <<last.arg.a[2]>>))
                      = last.result

C7_Witness ==
    /\ last.op = "infer" /\ last.arg = Annotated(int_cls, <<Foo>>)
    /\ lookup[int_cls] = int64
    /\ last.result = float64

\* What the container rule is to give for a list, dict, set or tuple alias.
ContainerExpected(py_type) ==
    LET a == py_type.a
        t == [j \in 1..Len(a) |-> infer(lookup, functions, a[j])]
    IN  CASE py_type.n = "list" -> ListType(t[1])
          [] py_type.n = "dict" -> DictType(t[1], t[2])
          [] py_type.n = "set" -> SetT(t[1])
          [] OTHER -> TupleFromTypes(t)

\* C8: a list, dict, set or tuple alias without a lookup entry of its own
\* resolves structurally at every depth: to ListType(infer(e)),
\* DictType(infer(k), infer(v)), Set(infer(e)) and the tuple type of
\* (infer(a1), ..., infer(an)) in that order, each argument resolved through
\* the whole registry.
C8_Containers ==
    (last.op = "infer" /\ last.arg.k = "generic" /\ NoEntry(last.arg)
       /\ last.arg.n \in {"list", "dict", "set", "tuple"}) =>
        last.result = ContainerExpected(last.arg)

C8_Witness ==
    /\ last.op = "infer" /\ last.arg = Generic("list", <<DictStrInt>>)
    /\ last.result =
         Ty("ListType", 0, <<Ty("DictType", 0, <<unicode_type, int64>>)>>)

\* C9 as stated: the function list is passthrough (_numba_type_infer), scalar
\* kind (_numpy_type_infer), generic shape (_builtin_infer), then the user
\* functions in registration order.
C9_AsStated ==
    functions =
        <<"_numba_type_infer", "_numpy_type_infer", "_builtin_infer">> \o funLog

\* C9, amended: in every reachable state the function list is
\* _builtin_infer (generic shape), _numba_type_infer (passthrough),
\* _numpy_type_infer (scalar kind), in that order, followed by the user
\* functions in registration order.
C9_BuiltinsThenUser ==
    functions =
        <<"_builtin_infer", "_numba_type_infer", "_numpy_type_infer">> \o funLog

C9_Witness ==
    /\ funLog = <<"user_foo_int", "user_foo_int">>
    /\ regLog # <<>>
    /\ last.op = "infer"

\* C10 as stated: the array case of Annotated is taken when there are two or
\* three annotations, the wrapped type is np.ndarray and the FIRST annotation
\* is an int; the Array has dtype infer(wrapped type), ndim that first
\* annotation and layout the third annotation or "A".  Any other Annotated
\* with more or fewer than one annotation raises TypingError.
C10_AsStated ==
    (last.op = "infer" /\ last.arg.k = "annotated" /\ NoEntry(last.arg)
       /\ Len(last.arg.a) # 2) =>
        LET inner == last.arg.a[1]
            md == Tail(last.arg.a)
        IN  IF Len(md) \in {2, 3} /\ inner = ndarray /\ md[1].k = "int"
            THEN LET dtype == infer(lookup, functions, inner)
                     layout == IF Len(md) = 3 THEN md[3] ELSE StrVal("A")
                 IN last.result = IF Raised(dtype) THEN dtype
                                  ELSE Ty("Array", md[1].i, <<dtype, layout>>)
            ELSE last.result = TypingError

\* C10, amended: the array case of Annotated is taken when there are two or
\* three annotations, the wrapped type is np.ndarray and the SECOND
\* annotation is an int; the Array has dtype infer(first annotation), ndim
\* the second annotation and layout the third annotation or "A".  Any other
\* Annotated with more or fewer than one annotation raises TypingError.
C10_ArrayGuard ==
    (last.op = "infer" /\ last.arg.k = "annotated" /\ NoEntry(last.arg)
       /\ Len(last.arg.a) # 2) =>
        LET inner == last.arg.a[1]
            md == Tail(last.arg.a)
        IN  IF Len(md) \in {2, 3} /\ inner = ndarray /\ md[2].k = "int"
            THEN LET dtype == infer(lookup, functions, md[1])
                     layout == IF Len(md) = 3 THEN md[3] ELSE StrVal("A")
                 IN last.result = IF Raised(dtype) THEN dtype
                                  ELSE Ty("Array", md[2].i, <<dtype, layout>>)
            ELSE last.result = TypingError

C10_Witness ==
    /\ last.op = "infer"
    /\ last.arg = Annotated(ndarray, <<np_float64, IntVal(2)>>)
    /\ last.result = Ty("Array", 2, <<float64, StrVal("A")>>)
=============================================================================
